---- MODULE Spec2Model ----
(***************************************************************************)
(* Scroll synchronisation of two document panes.                           *)
(*                                                                         *)
(*   scroll-sync.js           the console script: the two pane            *)
(*                            references, the re-entrancy flag, the        *)
(*                            enabled flag, the scroll listeners it adds   *)
(*                            and the 50 ms settle timer.                  *)
(*   MiddleScrollControl.jsx  the middle scroll bar that drives both       *)
(*                            panes from one percentage.                   *)
(*                                                                         *)
(* The host (the browser) is modelled by what it does to an element: it    *)
(* clamps a written offset to the element's scroll range and queues one    *)
(* scroll event for an element whose offset changed; it delivers queued    *)
(* scroll events and expired timers one callback at a time, in any order.  *)
(* Arithmetic is exact; the fixture's extents are ones for which the       *)
(* script's double-precision evaluation gives the same integers.           *)
(***************************************************************************)
EXTENDS Integers, Sequences, FiniteSets, TLC

\* ------------------------------------------------------------ the document

null == "null"

\* e1 and e2 overflow on both axes, e3 fits its box on both axes.
Elements == {"e1", "e2", "e3"}

scrollHeight == [e1 |-> 2000, e2 |-> 1000, e3 |-> 300]
clientHeight == [e1 |-> 500, e2 |-> 400, e3 |-> 300]
scrollWidth == [e1 |-> 502, e2 |-> 401, e3 |-> 300]
clientWidth == [e1 |-> 500, e2 |-> 400, e3 |-> 300]

\* The offsets a user gesture (wheel, scroll bar, keyboard) may leave an
\* element at: the ends of its range and, for e1, the middle, for e2, one
\* pixel (which maps to 2.5 pixels of e1).
UserTops(e) == CASE e = "e1" -> {0, 750, 1500}
                 [] e = "e2" -> {0, 1, 600}
                 [] OTHER -> {0}
UserLefts(e) == 0 .. (scrollWidth[e] - clientWidth[e])

\* What findScrollablePanes can return: the first two qualifying elements of
\* the document as it is at the call, or [null, null].  e3 never qualifies
\* (no overflow).
AutoResults == {<<"e1", "e2">>, <<null, null>>}

\* What document.querySelector can return for the selectors setPanes is given.
LeftMatches == {"e1", "e3", null}
RightMatches == {"e2", null}

\* What document.getElementById can return for the two container ids the
\* component is given.
LeftContainers == {"e1", null}
RightContainers == {"e2", null}

\* scrollBarRef.current.getBoundingClientRect().height, and the pointer
\* coordinates (clientY - rect.top) of a click on the track and of a move
\* during a drag, which may leave the track.
TrackHeight == 200
ClickYs == {150}
MoveYs == {-20, 1, 250}

\* The user operates the component's controls (track, drag, buttons) no more
\* than this many times.
MaxCommands == 2

\* The engine adds no more than this many scroll listeners to one element.
MaxListeners == 2

Max(a, b) == IF a >= b THEN a ELSE b
Min(a, b) == IF a <= b THEN a ELSE b

\* Math.round of the non-negative rational n / d: floor(n/d + 1/2).
Round(n, d) == (2 * n + d) \div (2 * d)

RECURSIVE GCD(_, _)
GCD(a, b) == IF b = 0 THEN a ELSE GCD(b, a % b)

\* A percentage, the rational n / d in lowest terms (n >= 0, d > 0).
Pct(n, d) == [n |-> n \div GCD(n, d), d |-> d \div GCD(n, d)]

\* Math.min(100, Math.max(0, n / d)) for d > 0.
ClampPct(n, d) == IF n <= 0 THEN Pct(0, 1) ELSE IF n >= 100 * d THEN Pct(100, 1) ELSE Pct(n, d)

\* No smooth scroll is going on.
NoTarget == -1

\* The shortest way left of a smooth scroll that the host splits into frames.
MinFrame == 500

VARIABLES
    leftPane, rightPane,   \* scroll-sync.js: the pane references (or null)
    isScrolling,           \* scroll-sync.js: the re-entrancy flag
    syncEnabled,           \* scroll-sync.js: the user toggle
    defined,               \* window.scrollSync is defined
    listeners,             \* per element, the kinds of the scroll listeners the
                           \* script added, in the order they were added
    timers,                \* number of settle timers not yet expired
    scrollTop, scrollLeft, \* per element, the offsets
    pending,               \* per element, the scroll event the host has queued
    written,               \* the offset writes of the last step
    uncaught,              \* an exception left a callback of the script
    smooth,                \* per element, the offset its smooth scroll is heading
                           \* for, or NoTarget
    scrollPosition,        \* MiddleScrollControl: the displayed percentage
    isDragging,            \* MiddleScrollControl: the drag state
    mounted,               \* MiddleScrollControl is mounted
    scrollListening,       \* its handleScroll listeners are on the two panes
    dragListening,         \* its mousemove/mouseup listeners are on the document
    commands,              \* number of scrollToPosition calls so far
    ret                    \* the last operation and what it returned

vars == <<leftPane, rightPane, isScrolling, syncEnabled, defined, listeners,
          timers, scrollTop, scrollLeft, pending, written, uncaught, ret,
          smooth, scrollPosition, isDragging, mounted, scrollListening, dragListening,
          commands>>

engine == <<leftPane, rightPane, isScrolling, syncEnabled, defined, listeners, timers>>
host == <<scrollTop, scrollLeft, pending, smooth>>
control == <<scrollPosition, isDragging, mounted, scrollListening, dragListening>>
idle == <<control, commands>>

Ret(op, el, val, src, tgt) == [op |-> op, el |-> el, val |-> val, src |-> src, tgt |-> tgt]

\* ------------------------------------------------------------------ the host

\* element.scrollTop = v: the host clamps v to the element's scroll range.
HostClamp(v, range) == Max(0, Min(v, Max(0, range)))

\* Mutant: the host queues a scroll event for every write, also one that
\* leaves the offset as it was.
QueueEchoAlways(p, changed) == IF p = "none" THEN "echo" ELSE p

\* The event the host has queued for element e after a write by the script
\* that changed (or not) its offset; a queued event is kept as it is.
QueueEcho(p, changed) == IF changed /\ p = "none" THEN "echo" ELSE p

\* ------------------------------------------------------------- syncScroll

\* Mutant: the early return forgets the enabled flag.
GuardedOnlyByFlag(scrolling, enabled) == scrolling

\* Mutant: the early return forgets the re-entrancy flag.
GuardedOnlyByToggle(scrolling, enabled) == ~enabled

\* Line 99: the early return.
Guarded(scrolling, enabled) == scrolling \/ ~enabled

\* Lines 107-111: Math.max(1, scrollHeight - clientHeight).
MaxScrollTop(e) == Max(1, scrollHeight[e] - clientHeight[e])
MaxScrollLeft(e) == Max(1, scrollWidth[e] - clientWidth[e])

\* Mutant: Math.floor in place of Math.round.
TargetScrollFloor(sourceOffset, sourceMax, targetMax) == (targetMax * sourceOffset) \div sourceMax

\* Lines 114-118: Math.round(targetMax * (sourceOffset / sourceMax)).
TargetScroll(sourceOffset, sourceMax, targetMax) == Round(targetMax * sourceOffset, sourceMax)

\* Lines 105-111 read a property of sourcePane, then of targetPane: a null
\* reference throws a TypeError before line 121 is reached.
Throws(sourcePane, targetPane) == sourcePane = null \/ targetPane = null

\* Mutant: setTimeout moved into the try block, after the writes.
TimersAfterInTry(t, threw) == IF threw THEN t ELSE t + 1

\* Lines 128-131: setTimeout follows the try block, so the settle timer is
\* set whether or not the block threw.
TimersAfter(t, threw) == t + 1

\* One call syncScroll(sourcePane, targetPane) on the state st, a record of
\* the variables a call can change.
syncScroll(st, sourcePane, targetPane) ==
    IF Guarded(st.isScrolling, syncEnabled)
    THEN [st EXCEPT !.val = IF st.val = "nolistener" THEN "guarded" ELSE st.val]
    ELSE IF Throws(sourcePane, targetPane)
    THEN \* caught at line 124; the timer is set all the same
         [st EXCEPT !.isScrolling = TRUE, !.timers = TimersAfter(st.timers, TRUE),
                    !.val = "error", !.src = sourcePane, !.tgt = targetPane]
    ELSE LET top == TargetScroll(st.scrollTop[sourcePane], MaxScrollTop(sourcePane),
                                 MaxScrollTop(targetPane))
             left == TargetScroll(st.scrollLeft[sourcePane], MaxScrollLeft(sourcePane),
                                  MaxScrollLeft(targetPane))
             newTop == HostClamp(top, scrollHeight[targetPane] - clientHeight[targetPane])
             newLeft == HostClamp(left, scrollWidth[targetPane] - clientWidth[targetPane])
             changed == newTop # st.scrollTop[targetPane] \/ newLeft # st.scrollLeft[targetPane]
         IN  [st EXCEPT !.isScrolling = TRUE, !.timers = TimersAfter(st.timers, FALSE),
                        !.scrollTop[targetPane] = newTop,
                        !.scrollLeft[targetPane] = newLeft,
                        !.pending[targetPane] = QueueEcho(st.pending[targetPane], changed),
                        !.smooth[targetPane] = NoTarget,
                        !.written = st.written \cup {<<targetPane, "top", top>>,
                                                     <<targetPane, "left", left>>},
                        !.val = "pass", !.src = sourcePane, !.tgt = targetPane]

\* Lines 145-146: what a listener of each kind calls when it runs; the arrow
\* functions read leftPane and rightPane when they are called.
ListenerSource(kind) == IF kind = "L" THEN leftPane ELSE rightPane
ListenerTarget(kind) == IF kind = "L" THEN rightPane ELSE leftPane

\* The host runs the listeners of an element in the order they were added.
RECURSIVE RunListeners(_, _)
RunListeners(st, ls) ==
    IF ls = <<>> THEN st
    ELSE RunListeners(syncScroll(st, ListenerSource(Head(ls)), ListenerTarget(Head(ls))),
                      Tail(ls))

\* Mutant: the percentage is that of the bottom edge of the viewport in the
\* content.
updateScrollPositionOfBottom(left) ==
    IF left = null THEN scrollPosition
    ELSE ClampPct(100 * (scrollTop[left] + clientHeight[left]), Max(1, scrollHeight[left]))

\* MiddleScrollControl.jsx lines 15-24: the percentage displayed after a
\* scroll event, with getElementById answering `left`.
updateScrollPosition(left) ==
    IF left = null THEN scrollPosition
    ELSE ClampPct(100 * scrollTop[left], Max(1, scrollHeight[left] - clientHeight[left]))

\* The host delivers the scroll event queued for element e: the component's
\* handleScroll (attached at mount) runs first, then the script's listeners.
DeliverScroll(e) ==
    /\ pending[e] # "none"
    /\ IF scrollListening /\ e \in (LeftContainers \cup RightContainers)
       THEN \E left \in LeftContainers : scrollPosition' = updateScrollPosition(left)
       ELSE scrollPosition' = scrollPosition
    /\ LET st0 == [isScrolling |-> isScrolling, timers |-> timers,
                   scrollTop |-> scrollTop, scrollLeft |-> scrollLeft,
                   pending |-> [pending EXCEPT ![e] = "none"], smooth |-> smooth,
                   written |-> {}, val |-> "nolistener", src |-> null, tgt |-> null]
           st == RunListeners(st0, listeners[e])
       IN  /\ isScrolling' = st.isScrolling
           /\ timers' = st.timers
           /\ scrollTop' = st.scrollTop
           /\ scrollLeft' = st.scrollLeft
           /\ pending' = st.pending
           /\ smooth' = st.smooth
           /\ written' = st.written
           /\ ret' = Ret("scroll", e, st.val, st.src, st.tgt)
    /\ UNCHANGED <<leftPane, rightPane, syncEnabled, defined, listeners, uncaught,
                   isDragging, mounted, scrollListening, dragListening, commands>>

\* Mutant: the timer callback reads the left pane to re-apply the offsets.
SettleTimerTouchesPanes ==
    /\ timers > 0
    /\ timers' = timers - 1
    /\ isScrolling' = FALSE
    /\ written' = {}
    /\ uncaught' = (uncaught \/ leftPane = null)
    /\ ret' = Ret("timer", null, null, null, null)
    /\ UNCHANGED <<leftPane, rightPane, syncEnabled, defined, listeners, host, idle>>

\* Lines 129-131: a settle timer expires.
SettleTimer ==
    /\ timers > 0
    /\ timers' = timers - 1
    /\ isScrolling' = FALSE
    /\ written' = {}
    /\ ret' = Ret("timer", null, null, null, null)
    /\ UNCHANGED <<leftPane, rightPane, syncEnabled, defined, listeners, host, uncaught, idle>>

\* ------------------------------------------------------- binding, control

\* Lines 153-160: removeEventListener is given a new arrow function each
\* time, which is no listener of the element: nothing is removed.
removeScrollListeners(ls) == ls

\* Lines 135-150, for panes l and r both non-null.
addScrollListeners(ls, l, r) ==
    LET kept == removeScrollListeners(ls)
        withLeft == [kept EXCEPT ![l] = Append(kept[l], "L")]
    IN  [withLeft EXCEPT ![r] = Append(withLeft[r], "R")]

\* Lines 170-190: init() with the document answering `found` to
\* findScrollablePanes.
init(found) ==
    /\ defined
    /\ leftPane' = found[1]
    /\ rightPane' = found[2]
    /\ IF found[1] # null /\ found[2] # null
       THEN /\ \A e \in Elements :
                  Len(addScrollListeners(listeners, found[1], found[2])[e]) <= MaxListeners
            /\ listeners' = addScrollListeners(listeners, found[1], found[2])
            /\ ret' = Ret("init", null, TRUE, found[1], found[2])
       ELSE /\ listeners' = listeners
            /\ ret' = Ret("init", null, FALSE, found[1], found[2])
    /\ written' = {}
    /\ UNCHANGED <<isScrolling, syncEnabled, defined, timers, host, uncaught, idle>>

\* Mutant: the references are assigned only when both were found.
PanesKeptOnFailure(l, r) == IF l # null /\ r # null THEN <<l, r>> ELSE <<leftPane, rightPane>>

\* Lines 80-81: both references are assigned before either is tested.
PanesSet(l, r) == <<l, r>>

\* Lines 79-95: setPanes with the document answering l and r to the two
\* querySelector calls.
setPanes(l, r) ==
    /\ defined
    /\ leftPane' = PanesSet(l, r)[1]
    /\ rightPane' = PanesSet(l, r)[2]
    /\ ret' = Ret("setPanes", null, l # null /\ r # null, l, r)
    /\ written' = {}
    /\ UNCHANGED <<isScrolling, syncEnabled, defined, listeners, timers, host, uncaught, idle>>

\* Lines 163-167.
toggleSync ==
    /\ defined
    /\ syncEnabled' = ~syncEnabled
    /\ ret' = Ret("toggle", null, ~syncEnabled, null, null)
    /\ written' = {}
    /\ UNCHANGED <<leftPane, rightPane, isScrolling, defined, listeners, timers, host, uncaught, idle>>

\* Lines 197-198.
setEnabled(b) ==
    /\ defined
    /\ syncEnabled' = b
    /\ ret' = Ret(IF b THEN "enable" ELSE "disable", null, null, null, null)
    /\ written' = {}
    /\ UNCHANGED <<leftPane, rightPane, isScrolling, defined, listeners, timers, host, uncaught, idle>>

\* Mutant: destroy() also resets the flag, and leaves the timer to expire.
destroyResetsFlag ==
    /\ defined
    /\ listeners' = removeScrollListeners(listeners)
    /\ leftPane' = null
    /\ rightPane' = null
    /\ defined' = FALSE
    /\ isScrolling' = FALSE
    /\ ret' = Ret("destroy", null, null, null, null)
    /\ written' = {}
    /\ UNCHANGED <<syncEnabled, timers, host, uncaught, idle>>

\* Lines 204-210.
destroy ==
    /\ defined
    /\ listeners' = removeScrollListeners(listeners)
    /\ leftPane' = null
    /\ rightPane' = null
    /\ defined' = FALSE
    /\ ret' = Ret("destroy", null, null, null, null)
    /\ written' = {}
    /\ UNCHANGED <<isScrolling, syncEnabled, timers, host, uncaught, idle>>

\* ------------------------------------------------------------------ the user

\* A user gesture leaves element e at another offset; the host queues its
\* scroll event.
UserScrollTop(e, x) ==
    /\ x # scrollTop[e]
    /\ scrollTop' = [scrollTop EXCEPT ![e] = x]
    /\ pending' = [pending EXCEPT ![e] = "user"]
    /\ written' = {}
    /\ ret' = Ret("user", e, null, null, null)
    /\ smooth' = [smooth EXCEPT ![e] = NoTarget]
    /\ UNCHANGED <<engine, scrollLeft, uncaught, idle>>

UserScrollLeft(e, x) ==
    /\ x # scrollLeft[e]
    /\ scrollLeft' = [scrollLeft EXCEPT ![e] = x]
    /\ pending' = [pending EXCEPT ![e] = "user"]
    /\ written' = {}
    /\ ret' = Ret("user", e, null, null, null)
    /\ smooth' = [smooth EXCEPT ![e] = NoTarget]
    /\ UNCHANGED <<engine, scrollTop, uncaught, idle>>

\* A frame in the middle of the smooth scroll of element e: the host moves e
\* half of the way that is left, as long as that way is MinFrame or longer,
\* and queues its scroll event.
SmoothFrame(e) ==
    /\ smooth[e] # NoTarget
    /\ Max(smooth[e] - scrollTop[e], scrollTop[e] - smooth[e]) >= MinFrame
    /\ scrollTop' = [scrollTop EXCEPT ![e] = (scrollTop[e] + smooth[e]) \div 2]
    /\ pending' = [pending EXCEPT ![e] = "user"]
    /\ written' = {}
    /\ ret' = Ret("frame", e, null, null, null)
    /\ UNCHANGED <<engine, scrollLeft, smooth, uncaught, idle>>

\* The last frame of the smooth scroll of element e: the host moves e to the
\* offset the scroll is heading for and queues its scroll event.
SmoothStep(e) ==
    /\ smooth[e] # NoTarget
    /\ scrollTop' = [scrollTop EXCEPT ![e] = smooth[e]]
    /\ smooth' = [smooth EXCEPT ![e] = NoTarget]
    /\ pending' = [pending EXCEPT ![e] = "user"]
    /\ written' = {}
    /\ ret' = Ret("frame", e, null, null, null)
    /\ UNCHANGED <<engine, scrollLeft, uncaught, idle>>

\* ------------------------------------------------- MiddleScrollControl.jsx

\* Mutant: the right pane's offset is computed from the left pane's extents.
ScrollTargetOfLeft(e, position) ==
    Round(Max(0, scrollHeight["e1"] - clientHeight["e1"]) * position.n, 100 * position.d)

\* Lines 30-35: Math.round(Math.max(0, scrollHeight - clientHeight) * (position / 100)).
ScrollTarget(e, position) ==
    Round(Max(0, scrollHeight[e] - clientHeight[e]) * position.n, 100 * position.d)

\* Mutant: scrollBy in place of scrollTo: the offset is added to the one the
\* element is at or heading for.
HostScrollBy(e, top) ==
    LET from == IF smooth[e] # NoTarget THEN smooth[e] ELSE scrollTop[e]
        t == HostClamp(from + top, scrollHeight[e] - clientHeight[e])
    IN  IF t = scrollTop[e] THEN NoTarget ELSE t

\* element.scrollTo({top, behavior: 'smooth'}): the offset the element's
\* smooth scroll is heading for afterwards; a scroll to where the element is
\* ends there.
HostScrollTo(e, top) ==
    LET t == HostClamp(top, scrollHeight[e] - clientHeight[e])
    IN  IF t = scrollTop[e] THEN NoTarget ELSE t

\* Lines 26-39: the scrollTo calls of scrollToPosition(position), with
\* getElementById answering left and right.
scrollToPosition(position, left, right) ==
    IF left = null \/ right = null THEN {}
    ELSE {<<left, "top", ScrollTarget(left, position)>>,
          <<right, "top", ScrollTarget(right, position)>>}

\* The state after the operation op of the component called
\* scrollToPosition(position).  ret.val tells whether the operation repeats
\* the step before it: the same operation with the same arguments on the same
\* containers.
ScrollTo(op, y, position, left, right) ==
    /\ commands < MaxCommands
    /\ commands' = commands + 1
    /\ written' = scrollToPosition(position, left, right)
    /\ smooth' = [e \in Elements |->
                    IF \E w \in scrollToPosition(position, left, right) : w[1] = e
                    THEN HostScrollTo(e, ScrollTarget(e, position))
                    ELSE smooth[e]]
    /\ ret' = Ret(op, y, ret.op = op /\ ret.el = y /\ ret.src = left /\ ret.tgt = right,
                  left, right)
    /\ UNCHANGED <<engine, scrollTop, scrollLeft, pending, uncaught>>

\* Lines 44-46 and 59-61: the percentage of the pointer coordinate y.
PointerPosition(y) == ClampPct(100 * y, TrackHeight)

\* Lines 41-49: a click on the track.
handleScrollBarClick(y) ==
    /\ mounted
    /\ \E left \in LeftContainers, right \in RightContainers :
          ScrollTo("click", y, PointerPosition(y), left, right)
    /\ UNCHANGED control

\* Lines 51-54 and 108-112: pointer-down on the track; the re-render attaches
\* the document listeners.
handleMouseDown(y) ==
    /\ mounted
    /\ isDragging' = TRUE
    /\ dragListening' = TRUE
    /\ \E left \in LeftContainers, right \in RightContainers :
          ScrollTo("mousedown", y, PointerPosition(y), left, right)
    /\ UNCHANGED <<scrollPosition, mounted, scrollListening>>

\* Lines 56-64: a mousemove on the document while its listener is attached.
handleMouseMove(y) ==
    /\ dragListening
    /\ IF isDragging
       THEN \E left \in LeftContainers, right \in RightContainers :
               ScrollTo("mousemove", y, PointerPosition(y), left, right)
       ELSE /\ written' = {}
            /\ ret' = Ret("mousemove", y, null, null, null)
            /\ UNCHANGED <<engine, host, uncaught, commands>>
    /\ UNCHANGED control

\* Lines 66-68 and 113-116: a mouseup on the document while its listener is
\* attached; the re-render runs the effect's cleanup.  ret.el is the
\* coordinate of the pointer-down when the pointer-up is the step after it.
handleMouseUp ==
    /\ dragListening
    /\ isDragging' = FALSE
    /\ dragListening' = FALSE
    /\ written' = {}
    /\ ret' = Ret("mouseup", IF ret.op = "mousedown" THEN ret.el ELSE null, null, null, null)
    /\ UNCHANGED <<engine, host, uncaught, scrollPosition, mounted, scrollListening, commands>>

\* Mutant: the new position is not clamped at 0.
scrollUpUnclamped ==
    /\ mounted
    /\ \E left \in LeftContainers, right \in RightContainers :
          ScrollTo("up", null,
                   [n |-> scrollPosition.n - 10 * scrollPosition.d, d |-> scrollPosition.d],
                   left, right)
    /\ UNCHANGED control

\* Lines 70-73.
scrollUp ==
    /\ mounted
    /\ \E left \in LeftContainers, right \in RightContainers :
          ScrollTo("up", null,
                   ClampPct(scrollPosition.n - 10 * scrollPosition.d, scrollPosition.d),
                   left, right)
    /\ UNCHANGED control

\* Lines 75-78.
scrollDown ==
    /\ mounted
    /\ \E left \in LeftContainers, right \in RightContainers :
          ScrollTo("down", null,
                   ClampPct(scrollPosition.n + 10 * scrollPosition.d, scrollPosition.d),
                   left, right)
    /\ UNCHANGED control

\* Lines 80-82.
resetScroll ==
    /\ mounted
    /\ \E left \in LeftContainers, right \in RightContainers :
          ScrollTo("reset", null, Pct(0, 1), left, right)
    /\ UNCHANGED control

\* Mutant: the drag effect returns no cleanup.
unmountKeepsDragListeners ==
    /\ mounted
    /\ mounted' = FALSE
    /\ scrollListening' = FALSE
    /\ written' = {}
    /\ ret' = Ret("unmount", null, null, null, null)
    /\ UNCHANGED <<engine, host, uncaught, scrollPosition, isDragging, dragListening, commands>>

\* Lines 101-104 and 113-116: the component is unmounted; the cleanups of
\* both effects run.
unmount ==
    /\ mounted
    /\ mounted' = FALSE
    /\ scrollListening' = FALSE
    /\ dragListening' = FALSE
    /\ written' = {}
    /\ ret' = Ret("unmount", null, null, null, null)
    /\ UNCHANGED <<engine, host, uncaught, scrollPosition, isDragging, commands>>

\* ------------------------------------------------------------ specification

\* The document before anything scrolls.
HostInit ==
    /\ scrollTop = [e \in Elements |-> 0]
    /\ scrollLeft = [e \in Elements |-> 0]
    /\ pending = [e \in Elements |-> "none"]
    /\ smooth = [e \in Elements |-> NoTarget]
    /\ written = {}
    /\ uncaught = FALSE

\* The state after the script has run: line 214 calls init() once.
ScriptLoaded ==
    /\ \E found \in AutoResults :
          /\ leftPane = found[1]
          /\ rightPane = found[2]
          /\ listeners = IF found[1] # null /\ found[2] # null
                         THEN addScrollListeners([e \in Elements |-> <<>>], found[1], found[2])
                         ELSE [e \in Elements |-> <<>>]
          /\ ret = Ret("init", null, found[1] # null /\ found[2] # null, found[1], found[2])
    /\ isScrolling = FALSE
    /\ syncEnabled = TRUE
    /\ defined = TRUE
    /\ timers = 0

\* A page the script was not pasted into.
ScriptAbsent ==
    /\ leftPane = null
    /\ rightPane = null
    /\ listeners = [e \in Elements |-> <<>>]
    /\ isScrolling = FALSE
    /\ syncEnabled = TRUE
    /\ defined = FALSE
    /\ timers = 0

\* MiddleScrollControl.jsx lines 6-8 and 89-99: the component after its
\* first render and effects: the scroll listeners are attached when both
\* containers were found.
ControlMounted ==
    /\ scrollPosition = Pct(0, 1)
    /\ isDragging = FALSE
    /\ mounted = TRUE
    /\ \E left \in LeftContainers, right \in RightContainers :
          scrollListening = (left # null /\ right # null)
    /\ dragListening = FALSE
    /\ commands = 0

\* A page without the component.
ControlAbsent ==
    /\ scrollPosition = Pct(0, 1)
    /\ isDragging = FALSE
    /\ mounted = FALSE
    /\ scrollListening = FALSE
    /\ dragListening = FALSE
    /\ commands = 0

\* The console script alone.
Init == HostInit /\ ScriptLoaded /\ ControlAbsent

Next ==
    \/ \E e \in Elements : DeliverScroll(e)
    \/ SettleTimer
    \/ \E found \in AutoResults : init(found)
    \/ \E l \in LeftMatches, r \in RightMatches : setPanes(l, r)
    \/ toggleSync
    \/ \E b \in BOOLEAN : setEnabled(b)
    \/ destroy
    \/ \E e \in Elements : \E x \in UserTops(e) : UserScrollTop(e, x)
    \/ \E e \in Elements : \E x \in UserLefts(e) : UserScrollLeft(e, x)

Spec == Init /\ [][Next]_vars

\* The host does expire a timer that was set.
FairSpec == Spec /\ WF_vars(SettleTimer)

\* The component alone; the user may also scroll the left pane by hand, to
\* the middle of its range.
InitControl ==
    /\ HostInit /\ ScriptAbsent /\ ControlMounted
    /\ ret = Ret("mount", null, null, null, null)

NextControl ==
    \/ \E e \in Elements : DeliverScroll(e)
    \/ \E e \in Elements : SmoothStep(e)
    \/ \E y \in ClickYs : handleScrollBarClick(y)
    \/ \E y \in ClickYs : handleMouseDown(y)
    \/ \E y \in MoveYs : handleMouseMove(y)
    \/ handleMouseUp
    \/ scrollUp
    \/ scrollDown
    \/ resetScroll
    \/ unmount
    \/ UserScrollTop("e1", (scrollHeight["e1"] - clientHeight["e1"]) \div 2)

SpecControl == InitControl /\ [][NextControl]_vars

\* The script and the component on the same two panes, e1 and e2: the
\* script is bound to them and enabled, the component's scroll listeners are
\* on them.  The user may scroll the left pane by hand to the middle of its
\* range, then operates the component once.
InitBoth ==
    /\ HostInit /\ ScriptLoaded /\ ControlMounted
    /\ leftPane = "e1" /\ rightPane = "e2" /\ scrollListening

NextBoth ==
    \/ \E e \in Elements : DeliverScroll(e)
    \/ SettleTimer
    \/ \E e \in Elements : SmoothFrame(e)
    \/ \E e \in Elements : SmoothStep(e)
    \/ commands = 0 /\ UserScrollTop("e1", (scrollHeight["e1"] - clientHeight["e1"]) \div 2)
    \/ commands = 0 /\ \E y \in ClickYs : handleScrollBarClick(y)
    \/ commands = 0 /\ \E y \in ClickYs : handleMouseDown(y)
    \/ handleMouseUp
    \/ commands = 0 /\ scrollUp
    \/ commands = 0 /\ scrollDown
    \/ commands = 0 /\ resetScroll

\* The host does deliver a queued scroll event, expire a timer and run the
\* frames of a smooth scroll.
SpecBoth ==
    /\ InitBoth /\ [][NextBoth]_vars
    /\ WF_vars(SettleTimer)
    /\ \A e \in Elements : WF_vars(DeliverScroll(e)) /\ WF_vars(SmoothStep(e))

\* ------------------------------------------------------------------ claims

ScrollRangeTop(e) == scrollHeight[e] - clientHeight[e]
ScrollRangeLeft(e) == scrollWidth[e] - clientWidth[e]
Abs(x) == IF x >= 0 THEN x ELSE -x
NoListeners == \A e \in Elements : listeners[e] = <<>>

\* C1 (as claimed): the scroll event the host queued for a pane because the
\* script wrote its offset never makes the script write an offset, whether
\* the host delivers it before or after the settle timer.
C1_EchoNeverWritesBack ==
    [][\A e \in Elements : (pending[e] = "echo" /\ DeliverScroll(e)) => written' = {}]_vars

\* C2 (as claimed): after an init() that bound a pair, the script's scroll
\* listeners are exactly one on each pane of the pair, and none elsewhere.
C2_OneListenerPerPane ==
    (ret.op = "init" /\ ret.val = TRUE) =>
        \A e \in Elements :
            listeners[e] = (IF e = leftPane THEN <<"L">>
                            ELSE IF e = rightPane THEN <<"R">> ELSE <<>>)

\* C3 (as claimed): once destroy() has run, no scroll listener of the script
\* is left on any element and both pane references are null.
C3_DestroyRemovesListeners ==
    ~defined => (NoListeners /\ leftPane = null /\ rightPane = null)

\* C4 (as claimed): init() called right after a setPanes(l, r) that returned
\* true returns true with the script bound to l and r: the references are
\* still l and r and each has its listener.
C4_ManualSetupBinds ==
    [][(ret.op = "setPanes" /\ ret.val = TRUE /\ \E found \in AutoResults : init(found)) =>
          /\ ret'.val = TRUE
          /\ leftPane' = leftPane /\ rightPane' = rightPane
          /\ \E i \in DOMAIN listeners'[leftPane] : listeners'[leftPane][i] = "L"
          /\ \E i \in DOMAIN listeners'[rightPane] : listeners'[rightPane][i] = "R"]_vars

\* C5: when the scroll event of pane A has run a propagation pass from A to
\* B, then on each axis on which both overflow (content > visible), B's
\* offset is round(x / rangeA * rangeB) for A's offset x, which is within one
\* pixel of B's range of A's normalised position.
C5_ProportionalMapping ==
    (ret.op = "scroll" /\ ret.val = "pass" /\ ret.src = ret.el /\ ret.tgt # ret.src) =>
        LET A == ret.src
            B == ret.tgt
        IN  /\ (ScrollRangeTop(A) > 0 /\ ScrollRangeTop(B) > 0) =>
                  /\ scrollTop[B] = Round(scrollTop[A] * ScrollRangeTop(B), ScrollRangeTop(A))
                  /\ Abs(scrollTop[B] * ScrollRangeTop(A) - scrollTop[A] * ScrollRangeTop(B))
                        <= ScrollRangeTop(A)
            /\ (ScrollRangeLeft(A) > 0 /\ ScrollRangeLeft(B) > 0) =>
                  /\ scrollLeft[B] = Round(scrollLeft[A] * ScrollRangeLeft(B), ScrollRangeLeft(A))
                  /\ Abs(scrollLeft[B] * ScrollRangeLeft(A) - scrollLeft[A] * ScrollRangeLeft(B))
                        <= ScrollRangeLeft(A)

\* C5 witness: the spec's scenario, A 2000/500 scrolled to 750 and B 1000/400
\* brought to 300 by the pass.
C5_Witness ==
    /\ ret.op = "scroll" /\ ret.val = "pass" /\ ret.el = "e1" /\ ret.src = "e1" /\ ret.tgt = "e2"
    /\ scrollTop["e1"] = 750 /\ scrollTop["e2"] = 300

\* C6: disable() and a toggle() that returns false leave sync disabled, and
\* while it is disabled the delivery of a scroll event writes no offset,
\* changes no offset and neither sets the flag nor a timer.
C6_ToggleOff ==
    /\ []((ret.op = "disable" \/ (ret.op = "toggle" /\ ret.val = FALSE)) => ~syncEnabled)
    /\ [][\A e \in Elements : (~syncEnabled /\ DeliverScroll(e)) =>
             /\ written' = {}
             /\ UNCHANGED <<scrollTop, scrollLeft, isScrolling, timers>>]_vars

\* C6 witness: sync is off, the listener of e1 ran on its scroll event, and
\* e2 was left where it was, out of proportion, with the flag clear.
C6_Witness ==
    /\ ~syncEnabled /\ ret.op = "scroll" /\ ret.el = "e1" /\ ret.val = "guarded"
    /\ ~isScrolling /\ scrollTop["e1"] = 1500 /\ scrollTop["e2"] = 0

\* C7: a pass that fails (a null pane reference) lets no exception out,
\* leaves the listeners and the references as they were and sets the settle
\* timer; the flag is set only while a timer is pending and every set flag is
\* cleared; and with the flag clear, sync enabled and both references
\* non-null, the scroll event of a pane with a listener runs a pass.
C7_FailureRecovery ==
    /\ [][\A e \in Elements : (DeliverScroll(e) /\ ret'.val = "error") =>
             /\ ~uncaught' /\ written' = {}
             /\ UNCHANGED <<listeners, leftPane, rightPane, syncEnabled, defined>>
             /\ isScrolling' /\ timers' = timers + 1]_vars
    /\ [](isScrolling => timers > 0)
    /\ (isScrolling ~> ~isScrolling)
    /\ [][\A e \in Elements :
             (/\ DeliverScroll(e) /\ listeners[e] # <<>>
              /\ ~isScrolling /\ syncEnabled /\ leftPane # null /\ rightPane # null)
             => (ret'.val = "pass" /\ written' # {})]_vars

\* C7 witness: the scroll event of a pane that has a listener has just run a
\* pass that failed: the exception was caught, the flag and one timer are set.
C7_Witness ==
    /\ ret.op = "scroll" /\ ret.val = "error" /\ isScrolling /\ timers = 1
    /\ ~uncaught /\ listeners[ret.el] # <<>>

C9_SettleAfterDestroy ==
    [][SettleTimer =>
             /\ written' = {} /\ ~uncaught' /\ ~isScrolling'
             /\ UNCHANGED <<scrollTop, scrollLeft, pending, leftPane, rightPane, listeners>>]_vars

\* C9 witness: a settle timer has expired after destroy() dropped the
\* references.
C9_Witness ==
    ret.op = "timer" /\ ~defined /\ ~isScrolling /\ timers = 0 /\ leftPane = null

\* The position the last operation of the component called scrollToPosition
\* with, as the rational n / d percent: from the pointer coordinate, from
\* the displayed percentage (which the operation leaves as it was), or 0.
C10_PositionN ==
    CASE ret.op \in {"click", "mousedown", "mousemove"} ->
            Max(0, Min(100 * TrackHeight, 100 * ret.el))
      [] ret.op = "up" -> Max(0, scrollPosition.n - 10 * scrollPosition.d)
      [] ret.op = "down" -> Min(100 * scrollPosition.d, scrollPosition.n + 10 * scrollPosition.d)
      [] OTHER -> 0
C10_PositionD ==
    CASE ret.op \in {"click", "mousedown", "mousemove"} -> TrackHeight
      [] ret.op \in {"up", "down"} -> scrollPosition.d
      [] OTHER -> 1

\* C10: every operation of the component that sets a position p (track
\* click, pointer-down, drag move, step, reset) has 0 <= p <= 100 and
\* commands round(p/100 * max(0, contentExtent - visibleExtent)) on the left
\* pane and on the right pane, each from its own extents; when either pane
\* is missing it commands nothing.
C10_SetPositionBothPanes ==
    (ret.op \in {"click", "mousedown", "mousemove", "up", "down", "reset"}) =>
        /\ 0 <= C10_PositionN /\ C10_PositionN <= 100 * C10_PositionD
        /\ IF ret.src # null /\ ret.tgt # null
           THEN written =
                  {<<ret.src, "top",
                     Round(C10_PositionN * Max(0, ScrollRangeTop(ret.src)), 100 * C10_PositionD)>>,
                   <<ret.tgt, "top",
                     Round(C10_PositionN * Max(0, ScrollRangeTop(ret.tgt)), 100 * C10_PositionD)>>}
           ELSE written = {}

\* C10 witness: the spec's scenario, a click at y = 150 on a track 200 high:
\* 75 percent, 1125 of e1's 1500 and 450 of e2's 600.
C10_Witness ==
    /\ ret.op = "click" /\ ret.el = 150 /\ ret.src = "e1" /\ ret.tgt = "e2"
    /\ written = {<<"e1", "top", 1125>>, <<"e2", "top", 450>>}
    /\ smooth["e1"] = 1125 /\ smooth["e2"] = 450

\* C11 (as claimed): when an operation of the component has set a position p
\* on two panes that were both found, the displayed percentage is p as soon
\* as the operation returns, before any scroll event is delivered.
C11_OptimisticDisplay ==
    [][/\ \A y \in ClickYs :
             ((handleScrollBarClick(y) \/ handleMouseDown(y)) /\ ret'.src # null /\ ret'.tgt # null)
             => scrollPosition' = PointerPosition(y)
       /\ \A y \in MoveYs :
             (isDragging /\ handleMouseMove(y) /\ ret'.src # null /\ ret'.tgt # null)
             => scrollPosition' = PointerPosition(y)
       /\ (scrollUp /\ ret'.src # null /\ ret'.tgt # null)
             => scrollPosition' = ClampPct(scrollPosition.n - 10 * scrollPosition.d, scrollPosition.d)
       /\ (scrollDown /\ ret'.src # null /\ ret'.tgt # null)
             => scrollPosition' = ClampPct(scrollPosition.n + 10 * scrollPosition.d, scrollPosition.d)
       /\ (resetScroll /\ ret'.src # null /\ ret'.tgt # null)
             => scrollPosition' = Pct(0, 1)]_vars

\* C12 (as claimed): a plain click on the track at y, which the host
\* delivers as pointer-down, pointer-up and click, calls scrollToPosition
\* once: the click that follows the pointer-up of a pointer-down at y does
\* not call it again.
C12_ClickOneSetPosition ==
    [][\A y \in ClickYs :
          (ret.op = "mouseup" /\ ret.el = y /\ handleScrollBarClick(y)) => commands' = commands]_vars

\* The operations of the component that call scrollToPosition.
SetPositionOps == {"click", "mousedown", "mousemove", "up", "down", "reset"}

\* C13: when an operation of the component calls scrollToPosition right
\* after the same operation called it with the same arguments on the same
\* containers, with no step in between, the second call commands the offsets
\* the first commanded, leaves each pane heading where it was heading and
\* changes no offset, no queued scroll event and not the displayed position.
C13_SetPositionIdempotent ==
    [][(/\ ret'.op \in SetPositionOps /\ commands' = commands + 1
        /\ ret.op = ret'.op /\ ret.el = ret'.el /\ ret.src = ret'.src /\ ret.tgt = ret'.tgt)
       => /\ written' = written
          /\ smooth' = smooth
          /\ UNCHANGED <<scrollTop, scrollLeft, pending, scrollPosition>>]_vars

\* C13 witness: a second click at y = 150 right after the first, both panes
\* found both times and still at 0, heading for 1125 and 450.
C13_Witness ==
    /\ ret.op = "click" /\ ret.val = TRUE /\ ret.src = "e1" /\ ret.tgt = "e2" /\ commands = 2
    /\ written = {<<"e1", "top", 1125>>, <<"e2", "top", 450>>}
    /\ smooth["e1"] = 1125 /\ smooth["e2"] = 450
    /\ scrollTop["e1"] = 0 /\ scrollTop["e2"] = 0 /\ scrollPosition = Pct(0, 1)

\* C14: a pane whose content fits its box on an axis is at offset 0 on it and
\* the script divides its offset by 1, not by 0, so that every target offset
\* computed from it is 0; the percentage the component computes for such a
\* pane is 0; and a propagation pass whose source is such a pane writes 0 to
\* the target on that axis and leaves it at 0.
C14_DegenerateContent ==
    /\ \A e \in Elements : ScrollRangeTop(e) = 0 =>
          /\ scrollTop[e] = 0 /\ MaxScrollTop(e) = 1
          /\ \A t \in Elements : TargetScroll(scrollTop[e], MaxScrollTop(e), MaxScrollTop(t)) = 0
          /\ updateScrollPosition(e) = Pct(0, 1)
    /\ \A e \in Elements : ScrollRangeLeft(e) = 0 =>
          /\ scrollLeft[e] = 0 /\ MaxScrollLeft(e) = 1
          /\ \A t \in Elements : TargetScroll(scrollLeft[e], MaxScrollLeft(e), MaxScrollLeft(t)) = 0
    /\ (ret.op = "scroll" /\ ret.val = "pass" /\ ScrollRangeTop(ret.src) = 0) =>
          (<<ret.tgt, "top", 0>> \in written /\ scrollTop[ret.tgt] = 0)
    /\ (ret.op = "scroll" /\ ret.val = "pass" /\ ScrollRangeLeft(ret.src) = 0) =>
          (<<ret.tgt, "left", 0>> \in written /\ scrollLeft[ret.tgt] = 0)

\* C14 witness: the left reference is e3, whose content fits; the scroll
\* event of e1 ran the pass from e3 to e2, which brought e2 back to 0.
C14_Witness ==
    /\ ret.op = "scroll" /\ ret.val = "pass" /\ ret.src = "e3" /\ ret.tgt = "e2"
    /\ written = {<<"e2", "top", 0>>, <<"e2", "left", 0>>}
    /\ scrollTop["e2"] = 0 /\ pending["e2"] = "echo"

\* C15 (as claimed): every offset a propagation pass writes to its target is
\* within the target's scroll range on that axis, [0, max(0, content -
\* visible)], also for a target whose content fits its box.
C15_TargetRangeClamping ==
    (ret.op = "scroll") =>
        \A w \in written :
            /\ 0 <= w[3]
            /\ w[3] <= Max(0, IF w[2] = "top" THEN ScrollRangeTop(w[1]) ELSE ScrollRangeLeft(w[1]))

\* Nothing is going on: the flag is clear, no timer is set, no scroll event
\* is queued and no smooth scroll is under way.
Quiescent ==
    /\ ~isScrolling /\ timers = 0
    /\ \A e \in Elements : pending[e] = "none" /\ smooth[e] = NoTarget

\* C16: with the script and the component on the same two panes, the scroll
\* events, frames and timers that one operation of the component sets off
\* come to an end under every interleaving: the system reaches a quiescent
\* state and stays in it, and once the operation was made no step out of a
\* quiescent state writes an offset or leaves it.
C16_DriversQuiesce ==
    /\ (commands = 1) ~> []Quiescent
    /\ [][(Quiescent /\ commands = 1) => (written' = {} /\ Quiescent')]_vars

\* C16 witness: after one click at 75 percent both panes have arrived, e1 at
\* 1125 and e2 at 450, passes of the script have run, and all is quiet.
C16_Witness ==
    /\ Quiescent /\ commands = 1 /\ ret.op \in {"scroll", "timer"}
    /\ scrollTop["e1"] = 1125 /\ scrollTop["e2"] = 450 /\ scrollPosition = Pct(75, 1)

\* C17: the delivery of a scroll event while the flag is set writes and
\* changes no offset and leaves the whole state of the script as it was (no
\* record of the event, no further timer); the event is gone from the host's
\* queue; and the timer that later clears the flag writes and changes no
\* offset and queues nothing.
C17_DroppedNotQueued ==
    /\ [][\A e \in Elements : (isScrolling /\ DeliverScroll(e)) =>
             /\ written' = {}
             /\ pending' = [pending EXCEPT ![e] = "none"]
             /\ UNCHANGED <<engine, scrollTop, scrollLeft>>]_vars
    /\ [][SettleTimer =>
             /\ written' = {} /\ timers' = timers - 1
             /\ UNCHANGED <<scrollTop, scrollLeft, pending>>]_vars

\* C17 witness: e2 was scrolled to 1 and its pass set the flag; the user then
\* scrolled e1 to 750 and that event was delivered under the flag: e2 stays
\* at 1, and one timer is pending, not two.
C17_Witness ==
    /\ ret.op = "scroll" /\ ret.el = "e1" /\ ret.val = "guarded" /\ syncEnabled
    /\ isScrolling /\ timers = 1 /\ written = {}
    /\ scrollTop["e1"] = 750 /\ scrollTop["e2"] = 1 /\ pending["e1"] = "none"

\* C18: the component's mousemove and mouseup listeners are on the document
\* only while the drag state is true and the component is mounted; a
\* pointer-down on the track attaches them; after a pointer-up and after the
\* unmount, whatever the drag state, they are not attached.
C18_DragListenerLifecycle ==
    /\ dragListening => (isDragging /\ mounted)
    /\ ret.op = "mousedown" => dragListening
    /\ ret.op \in {"mouseup", "unmount"} => ~dragListening
    /\ ~mounted => ~dragListening

\* C18 witness: the component was unmounted during a drag whose pointer-up
\* never came: the drag state is still true, the listeners are gone.
C18_Witness ==
    ret.op = "unmount" /\ isDragging /\ ~mounted /\ ~dragListening /\ commands > 0

C20_GuardTimerInvariant ==
    /\ [](isScrolling <=> timers = 1)
    /\ [](timers <= 1)
    /\ [][SettleTimer => (~isScrolling' /\ timers' = 0)]_vars
    /\ []((isScrolling /\ timers = 1) => <>(~isScrolling /\ timers = 0))

\* C20 witness: a pass has set the flag and its one timer, and the scroll
\* event of the other pane, then delivered under the flag, set no second one.
C20_Witness ==
    /\ isScrolling /\ timers = 1 /\ ret.op = "scroll" /\ ret.val = "guarded" /\ syncEnabled
    /\ ret.el = "e2" /\ scrollTop["e1"] = 750 /\ scrollTop["e2"] = 300

====
